---- MODULE Spec2Model ----
(***************************************************************************)
(* Interview session state machine of interview_bot:                       *)
(* core/conversation_manager.py (ConversationManager) over the durable     *)
(* store of database/models.py (DatabaseManager).                          *)
(*                                                                         *)
(* Scores are integers in thousandths (0.5 is 500).  Texts (question text, *)
(* feedback, timestamps) carry no control flow in the session handlers and *)
(* are left out of the records; an answer is one of a few answer texts.    *)
(***************************************************************************)
EXTENDS Integers, Sequences, FiniteSets, TLC

\* ------------------------------------------------------------------ bounds
MaxSessions == 2
MaxQuestions == 2
\* process_answer calls that run statement by statement
MaxCalls == 2

\* rows of the users table: user 1 exists, user 2 does not
Users == {1}
UserIds == {1, 2}
\* session_preferences["question_types"] of the start calls: every question's
\* type is a random.choice of it
RequestedTypes == {"technical"}
\* answer texts: one below MIN_ANSWER_LENGTH, one at or above it
Answers == {"short", "long"}
Threads == {1, 2}

VARIABLES
    db_sessions,       \* sessions table: row id = index, [user_id]
    db_questions,      \* questions table: row id = index, [session_id, question_type]
    db_answers,        \* answers table: question_id -> number of rows with it
    current_sessions,  \* ConversationManager.current_sessions: session_id -> session state
    ret,               \* what the last call returned
    nok,               \* per session: successful process_answer calls so far
    held,              \* per session: in current_sessions ever since start
    pc,                \* per thread: position inside process_answer
    loc,               \* per thread: process_answer's local variables
    calls,             \* process_answer calls begun statement by statement
    eval_args,         \* a call of the evaluator on its own: what it is given
    eval_result        \* and what it returned (NotEvaluated before the call)

vars == <<db_sessions, db_questions, db_answers, current_sessions, ret, nok, held, pc, loc, calls,
          eval_args, eval_result>>

\* what the session handlers leave alone
eval_vars == <<eval_args, eval_result>>

SessionIds == 1..MaxSessions

\* ------------------------------------------------------------- return values
NoQuestion == [id |-> 0, db_id |-> 0, type |-> "none"]

Ret(op, sid, status, message) ==
    [op |-> op, sid |-> sid, status |-> status, message |-> message,
     question |-> NoQuestion, followup |-> "none", overall |-> -1,
     current |-> -1, total |-> -1, answered |-> -1, average |-> -1,
     session_status |-> "none"]

NoLocals == [sid |-> 0, answer |-> "none", current_index |-> -1,
             current_question |-> NoQuestion, overall |-> -1, read |-> -1]

\* ------------------------------------------------------------------ helpers
\* a registry whose entries all alias the one written last
Put_all(f, k, v) == [x \in (DOMAIN f) \cup {k} |-> v]

Put(f, k, v) == [x \in (DOMAIN f) \cup {k} |-> IF x = k THEN v ELSE f[x]]

RECURSIVE SumSeq(_)
SumSeq(s) == IF s = <<>> THEN 0 ELSE Head(s) + SumSeq(Tail(s))

\* round(x, 3) of the quotient num/den, in thousandths: nearest, ties to even
Round3(num, den) ==
    LET q == num \div den
        r == num % den
    IN  IF 2 * r < den THEN q
        ELSE IF 2 * r > den THEN q + 1
        ELSE IF q % 2 = 0 THEN q ELSE q + 1

\* np.mean of a non-empty list of scores, rounded to 3 decimals
Mean3(scores) == Round3(SumSeq(scores), Len(scores))

\* ----------------------------------------------------- database/models.py
\* DatabaseManager.get_user: the row or None
get_user(user_id) == user_id \in Users

\* DatabaseManager.create_session: INSERT, the new row's id is lastrowid
create_session(rows, user_id) == Append(rows, [user_id |-> user_id])

\* DatabaseManager.save_question, once per generated question, in order
save_questions(rows, session_id, types) ==
    rows \o [i \in 1..Len(types) |-> [session_id |-> session_id, question_type |-> types[i]]]

\* number of rows of the answers table with this question_id
AnswerRows(rows, question_id) ==
    IF question_id \in DOMAIN rows THEN rows[question_id] ELSE 0

\* an INSERT that is swallowed: no row, no error
save_answer_dropped(rows, question_id, user_answer) == rows

\* DatabaseManager.save_answer: INSERT one row into answers.  The session
\* handlers read back only the rows' question_id, and only to count rows
\* (the ORDER BY answered_at of the one query feeds len()), so the table is
\* kept as the multiset of its question_id column
save_answer(rows, question_id, user_answer) ==
    Put(rows, question_id, AnswerRows(rows, question_id) + 1)

\* ------------------------------------------------ core/answer_evaluator.py
\* overall scores an answer at or above the minimum length can get
LongAnswerScores == {650, 900}

\* AnswerEvaluator.evaluate_answer: an answer shorter than MIN_ANSWER_LENGTH
\* gets overall 0.1; the score of any other answer depends on its text and
\* on the feedback service, and is one of LongAnswerScores
evaluate_answer(question, user_answer) ==
    IF user_answer = "short"
    THEN {[overall_score |-> 100]}
    ELSE {[overall_score |-> o] : o \in LongAnswerScores}

\* AnswerEvaluator.calculate_session_metrics
calculate_session_metrics(evaluations) ==
    IF evaluations = <<>>
    THEN [session_average |-> 0, total_questions |-> 0]
    ELSE [session_average |->
              Mean3([i \in 1..Len(evaluations) |-> evaluations[i].overall_score]),
          total_questions |-> Len(evaluations)]

\* ------------------------- core/answer_evaluator.py, the evaluation in full
\* Raw scores are integers in millionths (1.0 is 1000000); the scores of a
\* returned evaluation are round(x, 3), kept in thousandths as above.  The
\* text primitives (str.strip, TfidfVectorizer and cosine_similarity,
\* word_tokenize, sent_tokenize, re.search, str.split) are given by what they
\* return for the question and answer at hand: the record `text`.
Min(a, b) == IF a < b THEN a ELSE b
Max(a, b) == IF a > b THEN a ELSE b

\* config/settings.py
MIN_ANSWER_LENGTH == 10

\* a length check that forgets the strip()
stripped_length_raw(user_answer) == user_answer.chars

\* len(user_answer.strip()): the characters less the leading and trailing blanks
stripped_length(user_answer) == user_answer.chars - user_answer.blanks

\* AnswerEvaluator._evaluate_semantic_similarity: the cosine similarity plus
\* the baseline, clamped; 0.5 when anything in it raises.  (The question text
\* is always appended to reference_elements, so its 'no reference' return is
\* never taken.)
evaluate_semantic_similarity(similarity) ==
    IF similarity.raised THEN 500000
    ELSE Max(200000, Min(1000000, similarity.value + 300000))

\* AnswerEvaluator._evaluate_keyword_coverage raises what word_tokenize raises
\* (LookupError without the punkt data): it has no try/except, and it
\* tokenizes only when the question has expected keywords
keyword_coverage_raises(keywords) == keywords.total > 0 /\ keywords.raised

\* AnswerEvaluator._evaluate_keyword_coverage
evaluate_keyword_coverage(keywords) ==
    IF keywords.total = 0 THEN 700000
    ELSE Min(1000000, (keywords.matched * 1000000) \div keywords.total)

\* str.lower() of the words at hand
lower(word) ==
    CASE word = "Java" -> "java"
      [] word = "SQL" -> "sql"
      [] word = "C++" -> "c++"
      [] OTHER -> word

\* a in b of two lowercase words: a is b or a part of it
within(a, b) == a = b \/ (a = "java" /\ b = "javascript")

\* str.isalnum() of the words at hand
isalnum(word) == word \notin {"c++", "C++"}

\* a match that compares the keyword with whole words only, as they are written
keyword_matches_whole_word(keyword, user_answer) == keyword \in user_answer

\* _evaluate_keyword_coverage, the condition of its loop: the lowercased
\* keyword is in the lowercased text, or is one of its words, or is within
\* one of them; user_words are the alphanumeric tokens of the lowercased text
\* (no word at hand is a stop word).  The answer is the set of its words
keyword_matches(keyword, user_answer) ==
    LET keyword_lower == lower(keyword)
        user_text == {lower(word) : word \in user_answer}
        user_words == {word \in user_text : isalnum(word)}
    IN  \/ \E word \in user_text : within(keyword_lower, word)
        \/ keyword_lower \in user_words
        \/ \E word \in user_words : within(keyword_lower, word)

\* _evaluate_keyword_coverage, its loop: total_keywords and matched_keywords
keyword_counts(expected_keywords, user_answer) ==
    [raised |-> FALSE,
     total |-> Len(expected_keywords),
     matched |-> Cardinality({i \in 1..Len(expected_keywords) :
                                 keyword_matches(expected_keywords[i], user_answer)})]

\* AnswerEvaluator._evaluate_answer_structure raises what sent_tokenize and
\* word_tokenize raise: it has no try/except either
answer_structure_raises(structure) == structure.raised

\* AnswerEvaluator._evaluate_answer_structure
evaluate_answer_structure(structure) ==
    LET by_sentences == IF 3 <= structure.sentences /\ structure.sentences <= 8 THEN 300000
                        ELSE IF structure.sentences > 1 THEN 200000
                        ELSE 0
        by_words == IF 30 <= structure.word_count /\ structure.word_count <= 200 THEN 300000
                    ELSE IF 20 <= structure.word_count /\ structure.word_count <= 300 THEN 200000
                    ELSE 0
    IN  Min(1000000, by_sentences + by_words + 100000 * structure.indicators)

\* AnswerEvaluator._calculate_answer_quality_score.  It counts the words with
\* str.split and the connecting words by substring, where the structure score
\* counts alphanumeric tokens and matches whole words: the counts are taken
\* to agree, and a connecting word is there when the indicator pattern of
\* the same five words matches
calculate_answer_quality_score(structure, diverse) ==
    LET by_words == IF 30 <= structure.word_count /\ structure.word_count <= 200 THEN 300000
                    ELSE IF 20 <= structure.word_count /\ structure.word_count <= 300 THEN 200000
                    ELSE 0
        by_sentences == IF 2 <= structure.sentences /\ structure.sentences <= 8 THEN 300000
                        ELSE 0
        by_vocabulary == IF diverse THEN 200000 ELSE 0
        by_connecting == IF structure.indicators > 0 THEN 200000 ELSE 0
    IN  Min(1000000, by_words + by_sentences + by_vocabulary + by_connecting)

\* EvaluationMetrics.evaluate_answer_quality_metrics on the one pair
\* ([predicted_score], [0.8]) with threshold 0.6: the weighted f1
evaluate_answer_quality_metrics(predicted_score) ==
    IF predicted_score >= 600000 THEN 1000000 ELSE 0

\* AnswerEvaluator._categorize_nlp_performance
categorize_nlp_performance(composite_score) ==
    IF composite_score >= 800000 THEN "Excellent"
    ELSE IF composite_score >= 600000 THEN "Good"
    ELSE IF composite_score >= 400000 THEN "Average"
    ELSE "Needs Improvement"

\* AnswerEvaluator._calculate_advanced_nlp_metrics: the composite of ROUGE,
\* BLEU and F1, rounded to 3 decimals; the default bundle when anything in it
\* raises.  The sum is in units of 10^-8.
calculate_advanced_nlp_metrics(text) ==
    LET predicted_score == calculate_answer_quality_score(text.structure, text.nlp.diverse)
        composite_score == 30 * text.nlp.rouge1 + 30 * text.nlp.rougeL + 25 * text.nlp.bleu
                           + 15 * evaluate_answer_quality_metrics(predicted_score)
    IN  IF text.nlp.raised
        THEN [composite_nlp_score |-> 500, performance_category |-> "Average"]
        ELSE [composite_nlp_score |-> Round3(composite_score, 100000),
              performance_category |-> categorize_nlp_performance(composite_score \div 100)]

\* AnswerEvaluator._generate_ai_feedback: the service's text, or the fallback's
generate_ai_feedback(ai) == IF ai THEN "ai feedback" ELSE "fallback feedback"

\* AnswerEvaluator._identify_strengths
identify_strengths(semantic_score, keyword_score, structure_score) ==
    LET strengths ==
            (IF semantic_score > 700000 THEN <<"Strong content relevance">> ELSE <<>>)
            \o (IF keyword_score > 700000 THEN <<"Good use of technical terminology">> ELSE <<>>)
            \o (IF structure_score > 700000 THEN <<"Well-organized response">> ELSE <<>>)
    IN  IF strengths # <<>> THEN strengths ELSE <<"Shows understanding of the topic">>

\* AnswerEvaluator._identify_improvements
identify_improvements(semantic_score, keyword_score, structure_score) ==
    LET improvements ==
            (IF semantic_score < 500000 THEN <<"Address the question more directly">> ELSE <<>>)
            \o (IF keyword_score < 500000 THEN <<"Include more relevant technical terms">> ELSE <<>>)
            \o (IF structure_score < 500000
                THEN <<"Improve answer organization and flow">> ELSE <<>>)
    IN  IF improvements # <<>> THEN improvements
        ELSE <<"Continue practicing to build confidence">>

\* nlp_metrics = None
NoMetrics == [composite_nlp_score |-> -1, performance_category |-> "None"]

\* a result whose weights leave the NLP composite out
weighted_overall_without_nlp(semantic_score, keyword_score, structure_score, composite_nlp_score) ==
    (30 * semantic_score + 25 * keyword_score + 25 * structure_score) \div 100

\* evaluate_answer, "Calculate overall score with weights"; composite_nlp_score
\* is the rounded one of nlp_metrics, in thousandths.  The raw scores of the
\* inputs are multiples of 10^-4, so the division is exact
weighted_overall(semantic_score, keyword_score, structure_score, composite_nlp_score) ==
    (30 * semantic_score + 25 * keyword_score + 25 * structure_score
     + 20 * (1000 * composite_nlp_score)) \div 100

\* the level of an overall score (the if/elif chain of _create_evaluation_result)
performance_level(overall_score) ==
    IF overall_score >= 800000 THEN "Excellent"
    ELSE IF overall_score >= 600000 THEN "Good"
    ELSE IF overall_score >= 400000 THEN "Fair"
    ELSE "Needs Improvement"

\* AnswerEvaluator._create_evaluation_result: the level comes from the
\* overall score it is given, the scores it stores are rounded; the key
\* nlp_metrics exists only when metrics were given
create_evaluation_result(semantic_score, keyword_score, structure_score, overall_score, feedback, nlp_metrics) ==
    LET level == performance_level(overall_score)
        result == [semantic_score |-> Round3(semantic_score, 1000),
                   keyword_score |-> Round3(keyword_score, 1000),
                   structure_score |-> Round3(structure_score, 1000),
                   overall_score |-> Round3(overall_score, 1000),
                   performance_level |-> level,
                   color |-> CASE level = "Excellent" -> "green"
                               [] level = "Good" -> "blue"
                               [] level = "Fair" -> "orange"
                               [] OTHER -> "red",
                   feedback |-> feedback,
                   strengths |-> identify_strengths(semantic_score, keyword_score,
                                                    structure_score),
                   improvements |-> identify_improvements(semantic_score, keyword_score,
                                                          structure_score)]
    IN  IF nlp_metrics # NoMetrics
        THEN result @@ [nlp_metrics |-> nlp_metrics]
        ELSE result

\* no evaluation: the call was not made, or it raised
NoEvaluation == [overall_score |-> -1]

\* AnswerEvaluator.evaluate_answer: the evaluation it returns, the sub-steps
\* it called on the way and the exception that left it, if one did.  It has
\* no try/except of its own: what a sub-step raises ends the call there
evaluate_answer_in_full(text) ==
    IF stripped_length(text.answer) < MIN_ANSWER_LENGTH
    THEN [evaluation |->
              create_evaluation_result(
                  100000, 100000, 100000, 100000,
                  "Answer is too short. Please provide a more detailed response.",
                  NoMetrics),
          called |-> {}, raised |-> "none"]
    ELSE IF keyword_coverage_raises(text.keywords)
    THEN [evaluation |-> NoEvaluation, called |-> {"semantic", "keyword"},
          raised |-> "LookupError"]
    ELSE IF answer_structure_raises(text.structure)
    THEN [evaluation |-> NoEvaluation, called |-> {"semantic", "keyword", "structure"},
          raised |-> "LookupError"]
    ELSE LET semantic_score == evaluate_semantic_similarity(text.similarity)
             keyword_score == evaluate_keyword_coverage(text.keywords)
             structure_score == evaluate_answer_structure(text.structure)
             nlp_metrics == calculate_advanced_nlp_metrics(text)
             ai_feedback == generate_ai_feedback(text.ai)
             overall_score == weighted_overall(semantic_score, keyword_score, structure_score,
                                               nlp_metrics.composite_nlp_score)
         IN  [evaluation |->
                  create_evaluation_result(semantic_score, keyword_score, structure_score,
                                           overall_score, ai_feedback, nlp_metrics),
              called |-> {"semantic", "keyword", "structure", "nlp", "feedback"},
              raised |-> "none"]

\* the keys of the dict `scores` of calculate_session_metrics, in its order
AreaNames == <<"Content Relevance", "Technical Knowledge", "Communication Structure">>

\* a scan that keeps the last of equal values
last_with(values, best) ==
    CHOOSE i \in 1..Len(values) :
        values[i] = best /\ \A j \in (i + 1)..Len(values) : values[j] # best

\* max(scores, key=scores.get) and min(...): the first key with the best value
first_with(values, best) ==
    CHOOSE i \in 1..Len(values) :
        values[i] = best /\ \A j \in 1..(i - 1) : values[j] # best

\* AnswerEvaluator.calculate_session_metrics with all its keys.  The means of
\* one list length compare as their sums do
calculate_session_metrics_in_full(evaluations) ==
    IF evaluations = <<>>
    THEN [session_average |-> 0, strongest_area |-> "None", weakest_area |-> "None",
          total_questions |-> 0]
    ELSE LET n == Len(evaluations)
             semantic == SumSeq([i \in 1..n |-> evaluations[i].semantic_score])
             keyword == SumSeq([i \in 1..n |-> evaluations[i].keyword_score])
             structure == SumSeq([i \in 1..n |-> evaluations[i].structure_score])
             overall == SumSeq([i \in 1..n |-> evaluations[i].overall_score])
             scores == <<semantic, keyword, structure>>
             highest == Max(semantic, Max(keyword, structure))
             lowest == Min(semantic, Min(keyword, structure))
             count(low, high) ==
                 Cardinality({i \in 1..n : /\ low <= evaluations[i].overall_score
                                           /\ evaluations[i].overall_score < high})
         IN  [session_average |-> Round3(overall, n),
              semantic_average |-> Round3(semantic, n),
              keyword_average |-> Round3(keyword, n),
              structure_average |-> Round3(structure, n),
              strongest_area |-> AreaNames[first_with(scores, highest)],
              weakest_area |-> AreaNames[first_with(scores, lowest)],
              total_questions |-> n,
              performance_distribution |->
                  [excellent |-> count(800, 1001), good |-> count(600, 800),
                   fair |-> count(400, 600), needs_improvement |-> count(0, 400)]]

\* --------------------------------------------- core/question_generator.py
\* a generation loop that stops one question early
generate_questions_short(types) ==
    [i \in 1..(Len(types) - 1) |->
        [id |-> i, db_id |-> 0, type |-> types[i],
         evaluation_criteria |-> "generated", sample_answer |-> "generated"]]

\* QuestionGenerator.generate_questions: ids 1..num_questions, each type a
\* random.choice of the requested types (the sequence `types`).  Of the
\* texts of a question, evaluation_criteria and sample_answer are kept: they
\* are the two that save_question does not store
generate_questions(types) ==
    [i \in 1..Len(types) |->
        [id |-> i, db_id |-> 0, type |-> types[i],
         evaluation_criteria |-> "generated", sample_answer |-> "generated"]]

\* QuestionGenerator.generate_followup_question
generate_followup_question(score) ==
    IF score < 500 THEN "elaborate"
    ELSE IF score > 800 THEN "encourage"
    ELSE "none"

\* ------------------------------------------ core/conversation_manager.py
None == [session_id |-> 0, user_id |-> 0, questions |-> <<>>,
         current_question_index |-> 0, answers |-> <<>>, evaluations |-> <<>>,
         status |-> "none"]

\* SELECT * FROM questions WHERE session_id = ? ORDER BY id: the ids of the rows
question_rows(rows, session_id) ==
    SelectSeq([i \in 1..Len(rows) |-> i], LAMBDA i : rows[i].session_id = session_id)

\* a reconstruction that never reports completed
restored_status_active(current_question_index, total) == "active"

\* status of a reconstructed session (the last entry of session_state)
restored_status(current_question_index, total) ==
    IF current_question_index < total THEN "active" ELSE "completed"

\* a reconstruction that starts the session over
restored_index_reset(answered_questions) == 0

\* position of a reconstructed session: the number of answered questions
restored_index(answered_questions) == answered_questions

\* ConversationManager._restore_session_from_db
restore_session_from_db(session_id) ==
    LET has_row == /\ session_id \in 1..Len(db_sessions)
                   /\ get_user(db_sessions[session_id].user_id)
        qids == question_rows(db_questions, session_id)
        questions == [k \in 1..Len(qids) |->
                         [id |-> qids[k], db_id |-> qids[k],
                          type |-> db_questions[qids[k]].question_type]]
        \* questions JOIN answers: one result row per answer row of a question
        answered_questions == SumSeq([k \in 1..Len(qids) |-> AnswerRows(db_answers, qids[k])])
        current_question_index == restored_index(answered_questions)
    IN  IF ~has_row THEN None
        ELSE IF qids = <<>> THEN None
        ELSE [session_id |-> session_id,
              user_id |-> db_sessions[session_id].user_id,
              questions |-> questions,
              current_question_index |-> current_question_index,
              answers |-> <<>>,
              evaluations |-> <<>>,
              status |-> restored_status(current_question_index, Len(questions))]

\* ConversationManager.start_interview_session
start_interview_session(user_id, types) ==
    LET session_id == Len(db_sessions) + 1
        generated == generate_questions(types)
        questions == [i \in 1..Len(generated) |->
                         [generated[i] EXCEPT !.db_id = Len(db_questions) + i]]
        session_state == [session_id |-> session_id, user_id |-> user_id,
                          questions |-> questions, current_question_index |-> 0,
                          answers |-> <<>>, evaluations |-> <<>>, status |-> "active"]
    IN  /\ Len(db_sessions) < MaxSessions
        /\ db_sessions' = create_session(db_sessions, user_id)
        /\ IF ~get_user(user_id)
           THEN /\ ret' = Ret("start", session_id, "error", "User not found")
                /\ UNCHANGED <<db_questions, current_sessions, held>>
           ELSE /\ db_questions' = save_questions(db_questions, session_id, types)
                /\ current_sessions' = Put(current_sessions, session_id, session_state)
                /\ held' = [held EXCEPT ![session_id] = TRUE]
                /\ ret' = [Ret("start", session_id, "success", "") EXCEPT
                              !.question = IF questions # <<>> THEN questions[1] ELSE NoQuestion,
                              !.total = Len(questions)]
        /\ UNCHANGED <<db_answers, nok, pc, loc, calls,
                       eval_args, eval_result>>

\* an update that forgets the increment of the index
update_session_state_stuck(session, current_question, answer, evaluation) ==
    [session EXCEPT
        !.answers = Append(@, [question_id |-> current_question.id, answer |-> answer]),
        !.evaluations = Append(@, evaluation)]

\* process_answer, "Update session state": both appends and the increment
update_session_state(session, current_question, answer, evaluation) ==
    [session EXCEPT
        !.answers = Append(@, [question_id |-> current_question.id, answer |-> answer]),
        !.evaluations = Append(@, evaluation),
        !.current_question_index = @ + 1]

\* a completion that forgets to set the status
complete_session_silent(session) == session

\* ConversationManager._complete_session: the session it leaves
complete_session(session) == [session EXCEPT !.status = "completed"]

\* _generate_recommendations: the sentence of a question type, if it has one
type_recommendation(q_type) ==
    CASE q_type = "technical" ->
             <<"Focus on technical concepts and hands-on practice in your domain.">>
      [] q_type = "behavioral" ->
             <<"Prepare specific examples from your experience using the STAR method.">>
      [] q_type = "situational" ->
             <<"Practice thinking through hypothetical scenarios systematically.">>
      [] OTHER -> <<>>

RECURSIVE Flatten(_)
Flatten(lists) == IF lists = <<>> THEN <<>> ELSE Head(lists) \o Flatten(Tail(lists))

\* ConversationManager._generate_recommendations (called with no more
\* evaluations than questions; _complete_session's caller sees an IndexError
\* otherwise).  question_type_scores is a dict: its types come in the order
\* of their first question, and evaluation i goes to the type of questions[i]
generate_recommendations(session, metrics) ==
    LET n == Len(session.evaluations)
        type_of(i) == session.questions[i].type
        by_area ==
            (IF metrics.semantic_average < 600
             THEN <<"Practice answering questions more directly and relevantly to what's being asked.">>
             ELSE <<>>)
            \o (IF metrics.keyword_average < 600
                THEN <<"Study technical terminology and concepts specific to your domain.">>
                ELSE <<>>)
            \o (IF metrics.structure_average < 600
                THEN <<"Work on structuring your answers using frameworks like STAR (Situation, Task, Action, Result).">>
                ELSE <<>>)
        first_of_type == SelectSeq([i \in 1..n |-> i],
                                   LAMBDA i : \A j \in 1..(i - 1) : type_of(j) # type_of(i))
        scores(q_type) == SelectSeq([i \in 1..n |-> i], LAMBDA i : type_of(i) = q_type)
        total(q_type) ==
            SumSeq([k \in 1..Len(scores(q_type)) |->
                       session.evaluations[scores(q_type)[k]].overall_score])
        by_type ==
            Flatten([k \in 1..Len(first_of_type) |->
                        LET q_type == type_of(first_of_type[k])
                        IN  IF total(q_type) < 500 * Len(scores(q_type))
                            THEN type_recommendation(q_type)
                            ELSE <<>>])
        triggered == by_area \o by_type
        recommendations ==
            (IF triggered = <<>>
             THEN <<"Continue practicing regularly to maintain and improve your interview skills.">>
             ELSE triggered)
            \o <<"Review the detailed feedback for each question to understand specific areas for improvement.">>
    IN  SubSeq(recommendations, 1, Min(5, Len(recommendations)))

\* ConversationManager._complete_session: what it returns.  The return
\* expression calls _generate_recommendations, which reads questions[i] for
\* every index i of evaluations: with more evaluations than questions that is
\* an IndexError, raised after the status was set
session_completed(session) ==
    LET session_metrics == calculate_session_metrics(session.evaluations)
    IN  IF Len(session.evaluations) > Len(session.questions)
        THEN Ret("process_answer", session.session_id, "raised", "IndexError")
        ELSE [Ret("process_answer", session.session_id, "session_completed", "") EXCEPT
                 !.total = Len(session.questions),
                 !.average = session_metrics.session_average,
                 !.answered = session_metrics.total_questions]

\* process_answer, "Determine next action", the branch with questions left
question_answered(session, current_question, evaluation) ==
    [Ret("process_answer", session.session_id, "question_answered", "") EXCEPT
        !.overall = evaluation.overall_score,
        !.question = session.questions[session.current_question_index + 1],
        !.followup = IF evaluation.overall_score < 500
                     THEN generate_followup_question(evaluation.overall_score)
                     ELSE "none",
        !.current = session.current_question_index,
        !.total = Len(session.questions)]

\* process_answer from "current_question = ..." on (lines 103-153): the
\* evaluation, the INSERT, the update of the session and the next action.
\* The INSERT can fail (sqlite3.Error: database locked, disk full); nothing
\* in save_answer or process_answer catches it, the connection's context
\* manager rolls the row back, and the statements after it do not run
process_answer_at_cursor(session_id, answer) ==
    LET session == current_sessions[session_id]
        current_question == session.questions[session.current_question_index + 1]
    IN  \E evaluation \in evaluate_answer(current_question, answer), saved \in BOOLEAN :
          LET updated == update_session_state(session, current_question, answer, evaluation)
              rows == save_answer(db_answers, current_question.db_id, answer)
          IN  IF ~saved
              THEN /\ ret' = Ret("process_answer", session_id, "raised", "sqlite3.Error")
                   /\ UNCHANGED <<db_answers, current_sessions, nok>>
              ELSE /\ db_answers' = rows
                   /\ nok' = [nok EXCEPT ![session_id] = @ + 1]
                   /\ IF updated.current_question_index < Len(updated.questions)
                      THEN /\ current_sessions' = Put(current_sessions, session_id, updated)
                           /\ ret' = question_answered(updated, current_question, evaluation)
                      ELSE /\ current_sessions' =
                                  Put(current_sessions, session_id, complete_session(updated))
                           /\ ret' = session_completed(updated)

\* a bounds check that lets the index one past the last question through:
\* session["questions"][current_index] then raises IndexError
process_answer_off_by_one(session_id, answer) ==
    /\ \A t \in Threads : pc[t] = "idle"
    /\ IF session_id \notin DOMAIN current_sessions
       THEN /\ ret' = Ret("process_answer", session_id, "error", "Session not found")
            /\ UNCHANGED <<db_answers, current_sessions, nok>>
       ELSE LET session == current_sessions[session_id]
                current_index == session.current_question_index
            IN  IF current_index > Len(session.questions)
                THEN /\ ret' = Ret("process_answer", session_id, "error",
                                   "No more questions in session")
                     /\ UNCHANGED <<db_answers, current_sessions, nok>>
                ELSE IF current_index = Len(session.questions)
                THEN /\ ret' = Ret("process_answer", session_id, "raised", "IndexError")
                     /\ UNCHANGED <<db_answers, current_sessions, nok>>
                ELSE process_answer_at_cursor(session_id, answer)
    /\ UNCHANGED <<db_sessions, db_questions, held, pc, loc, calls,
                   eval_args, eval_result>>

\* ConversationManager.process_answer, called alone (no other call of it running)
process_answer(session_id, answer) ==
    /\ \A t \in Threads : pc[t] = "idle"
    /\ IF session_id \notin DOMAIN current_sessions
       THEN /\ ret' = Ret("process_answer", session_id, "error", "Session not found")
            /\ UNCHANGED <<db_answers, current_sessions, nok>>
       ELSE LET session == current_sessions[session_id]
                current_index == session.current_question_index
            IN  IF current_index >= Len(session.questions)
                THEN /\ ret' = Ret("process_answer", session_id, "error",
                                   "No more questions in session")
                     /\ UNCHANGED <<db_answers, current_sessions, nok>>
                ELSE process_answer_at_cursor(session_id, answer)
    /\ UNCHANGED <<db_sessions, db_questions, held, pc, loc, calls,
                   eval_args, eval_result>>

\* ------------------- process_answer, statement by statement, per thread
\* The handler takes no lock and ConversationManager has none: two calls for
\* one session can be inside it together, and a thread switch can fall
\* between any two statements (and inside the += of the index).
Locals(t, session_id, answer, session) ==
    [NoLocals EXCEPT !.sid = session_id, !.answer = answer,
                     !.current_index = session.current_question_index,
                     !.current_question = session.questions[session.current_question_index + 1]]

\* the lookup, the bounds check and the read of the current question
pa_begin(t, session_id, answer) ==
    /\ pc[t] = "idle"
    /\ calls < MaxCalls
    /\ calls' = calls + 1
    /\ IF session_id \notin DOMAIN current_sessions
       THEN /\ ret' = Ret("process_answer", session_id, "error", "Session not found")
            /\ UNCHANGED <<pc, loc>>
       ELSE LET session == current_sessions[session_id]
            IN  IF session.current_question_index >= Len(session.questions)
                THEN /\ ret' = Ret("process_answer", session_id, "error",
                                   "No more questions in session")
                     /\ UNCHANGED <<pc, loc>>
                ELSE /\ loc' = [loc EXCEPT ![t] = Locals(t, session_id, answer, session)]
                     /\ pc' = [pc EXCEPT ![t] = "evaluate"]
                     /\ UNCHANGED ret
    /\ UNCHANGED <<db_sessions, db_questions, db_answers, current_sessions, nok, held,
                   eval_args, eval_result>>

\* evaluation = self.answer_evaluator.evaluate_answer(current_question, answer)
pa_evaluate(t) ==
    /\ UNCHANGED calls
    /\ pc[t] = "evaluate"
    /\ \E evaluation \in evaluate_answer(loc[t].current_question, loc[t].answer) :
          loc' = [loc EXCEPT ![t].overall = evaluation.overall_score]
    /\ pc' = [pc EXCEPT ![t] = "save"]
    /\ UNCHANGED <<db_sessions, db_questions, db_answers, current_sessions, ret, nok, held,
                   eval_args, eval_result>>

\* self.db.save_answer(question_id=current_question["db_id"], ...)
pa_save(t) ==
    /\ UNCHANGED calls
    /\ pc[t] = "save"
    /\ \E saved \in BOOLEAN :
          IF saved
          THEN /\ db_answers' = save_answer(db_answers, loc[t].current_question.db_id,
                                            loc[t].answer)
               /\ pc' = [pc EXCEPT ![t] = "append"]
               /\ UNCHANGED <<ret, loc>>
          ELSE /\ ret' = Ret("process_answer", loc[t].sid, "raised", "sqlite3.Error")
               /\ pc' = [pc EXCEPT ![t] = "idle"]
               /\ loc' = [loc EXCEPT ![t] = NoLocals]
               /\ UNCHANGED db_answers
    /\ UNCHANGED <<db_sessions, db_questions, current_sessions, nok, held,
                   eval_args, eval_result>>

\* session["answers"].append(...); session["evaluations"].append(evaluation)
pa_append(t) ==
    /\ UNCHANGED calls
    /\ pc[t] = "append"
    /\ current_sessions' =
          [current_sessions EXCEPT
              ![loc[t].sid].answers =
                  Append(@, [question_id |-> loc[t].current_question.id,
                             answer |-> loc[t].answer]),
              ![loc[t].sid].evaluations = Append(@, [overall_score |-> loc[t].overall])]
    /\ pc' = [pc EXCEPT ![t] = "read_index"]
    /\ UNCHANGED <<db_sessions, db_questions, db_answers, ret, nok, held, loc,
                   eval_args, eval_result>>

\* session["current_question_index"] += 1: the load of the old value
pa_read_index(t) ==
    /\ UNCHANGED calls
    /\ pc[t] = "read_index"
    /\ loc' = [loc EXCEPT ![t].read = current_sessions[loc[t].sid].current_question_index]
    /\ pc' = [pc EXCEPT ![t] = "write_index"]
    /\ UNCHANGED <<db_sessions, db_questions, db_answers, current_sessions, ret, nok, held,
                   eval_args, eval_result>>

\* session["current_question_index"] += 1: the store of old value + 1
pa_write_index(t) ==
    /\ UNCHANGED calls
    /\ pc[t] = "write_index"
    /\ current_sessions' =
          [current_sessions EXCEPT ![loc[t].sid].current_question_index = loc[t].read + 1]
    /\ pc' = [pc EXCEPT ![t] = "return"]
    /\ UNCHANGED <<db_sessions, db_questions, db_answers, ret, nok, held, loc,
                   eval_args, eval_result>>

\* "Determine next action" and the return
pa_return(t) ==
    /\ UNCHANGED calls
    /\ pc[t] = "return"
    /\ LET session == current_sessions[loc[t].sid]
           evaluation == [overall_score |-> loc[t].overall]
       IN  IF session.current_question_index < Len(session.questions)
           THEN /\ ret' = question_answered(session, loc[t].current_question, evaluation)
                /\ UNCHANGED current_sessions
           ELSE /\ current_sessions' =
                       Put(current_sessions, loc[t].sid, complete_session(session))
                /\ ret' = session_completed(session)
    /\ nok' = [nok EXCEPT ![loc[t].sid] = IF ret'.status = "raised" THEN @ ELSE @ + 1]
    /\ pc' = [pc EXCEPT ![t] = "idle"]
    /\ loc' = [loc EXCEPT ![t] = NoLocals]
    /\ UNCHANGED <<db_sessions, db_questions, db_answers, held,
                   eval_args, eval_result>>

\* ConversationManager.get_session_status
get_session_status(session_id) ==
    LET session_data == restore_session_from_db(session_id)
        found(session) ==
            [Ret("status", session_id, "found", "") EXCEPT
                !.current = session.current_question_index,
                !.total = Len(session.questions),
                !.session_status = session.status]
    IN  /\ IF session_id \in DOMAIN current_sessions
           THEN /\ ret' = found(current_sessions[session_id])
                /\ UNCHANGED current_sessions
           ELSE IF session_data # None
           THEN /\ current_sessions' = Put(current_sessions, session_id, session_data)
                /\ ret' = found(session_data)
           ELSE /\ ret' = Ret("status", session_id, "none", "")
                /\ UNCHANGED current_sessions
        /\ UNCHANGED <<db_sessions, db_questions, db_answers, nok, held, pc, loc, calls,
                       eval_args, eval_result>>

\* pause_session: the status it sets
paused_status(status) == "paused"

\* ConversationManager.pause_session
pause_session(session_id) ==
    /\ IF session_id \notin DOMAIN current_sessions
       THEN /\ ret' = Ret("pause", session_id, "error", "Session not found")
            /\ UNCHANGED current_sessions
       ELSE /\ current_sessions' =
                   [current_sessions EXCEPT ![session_id].status = paused_status(@)]
            /\ ret' = Ret("pause", session_id, "success", "Session paused")
    /\ UNCHANGED <<db_sessions, db_questions, db_answers, nok, held, pc, loc, calls,
                   eval_args, eval_result>>

\* ConversationManager.resume_session
resume_session(session_id) ==
    /\ IF session_id \notin DOMAIN current_sessions
       THEN /\ ret' = Ret("resume", session_id, "error", "Session not found")
            /\ UNCHANGED current_sessions
       ELSE LET session == current_sessions[session_id]
                current_index == session.current_question_index
            IN  IF session.status # "paused"
                THEN /\ ret' = Ret("resume", session_id, "error", "Session is not paused")
                     /\ UNCHANGED current_sessions
                ELSE /\ current_sessions' =
                            [current_sessions EXCEPT ![session_id].status = "active"]
                     /\ ret' = IF current_index < Len(session.questions)
                               THEN [Ret("resume", session_id, "success", "") EXCEPT
                                        !.question = session.questions[current_index + 1],
                                        !.current = current_index,
                                        !.total = Len(session.questions)]
                               ELSE Ret("resume", session_id, "error",
                                        "No more questions in session")
    /\ UNCHANGED <<db_sessions, db_questions, db_answers, nok, held, pc, loc, calls,
                   eval_args, eval_result>>

\* ConversationManager.end_session_early
end_session_early(session_id) ==
    /\ IF session_id \notin DOMAIN current_sessions
       THEN /\ ret' = Ret("end_early", session_id, "error", "Session not found")
            /\ UNCHANGED current_sessions
       ELSE LET session == current_sessions[session_id]
                partial_metrics == calculate_session_metrics(session.evaluations)
            IN  IF session.evaluations # <<>>
                THEN /\ current_sessions' =
                            [current_sessions EXCEPT ![session_id].status = "ended_early"]
                     /\ ret' = [Ret("end_early", session_id, "session_ended_early", "") EXCEPT
                                   !.answered = Len(session.evaluations),
                                   !.total = Len(session.questions),
                                   !.average = partial_metrics.session_average]
                ELSE /\ current_sessions' =
                            [current_sessions EXCEPT ![session_id].status = "cancelled"]
                     /\ ret' = Ret("end_early", session_id, "session_cancelled", "")
    /\ UNCHANGED <<db_sessions, db_questions, db_answers, nok, held, pc, loc, calls,
                   eval_args, eval_result>>

\* ConversationManager.__init__ of a new process (a Streamlit rerun builds a new
\* InterviewBotApp): current_sessions starts empty, the database file stays
restart ==
    /\ \A t \in Threads : pc[t] = "idle"
    /\ current_sessions' = [s \in {} |-> 0]
    /\ held' = [s \in SessionIds |-> FALSE]
    /\ ret' = Ret("restart", 0, "none", "")
    /\ UNCHANGED <<db_sessions, db_questions, db_answers, nok, pc, loc, calls,
                   eval_args, eval_result>>

\* ------------------------------------------- one evaluate_answer call alone
\* answers by their characters and their leading and trailing blanks: trimmed
\* lengths 4, 9 (12 characters before the strip), 10, 10 and 700
AnswerTexts ==
    {[chars |-> 4, blanks |-> 0], [chars |-> 12, blanks |-> 3], [chars |-> 10, blanks |-> 0],
     [chars |-> 12, blanks |-> 2], [chars |-> 700, blanks |-> 0]}

\* cosine similarity of the TF-IDF vectors (0, 0.3252, 0.95), or an exception
SimilarityOutcomes ==
    {[raised |-> TRUE, value |-> 0]}
    \cup {[raised |-> FALSE, value |-> v] : v \in {0, 325200, 950000}}

\* len(expected_keywords) and how many of them the answer matches, or an
\* exception of the tokenizer
KeywordCounts ==
    {[raised |-> FALSE, total |-> k[1], matched |-> k[2]] :
        k \in {<<0, 0>>, <<5, 0>>, <<5, 3>>, <<2, 2>>}}
    \cup {[raised |-> TRUE, total |-> 5, matched |-> 0]}

\* sentences, alphanumeric words and matching indicator patterns of the
\* answer, or an exception of the tokenizers
StructureCounts ==
    [raised : {FALSE}, sentences : {1, 2, 5}, word_count : {2, 25, 100}, indicators : {0, 4}]
    \cup {[raised |-> TRUE, sentences |-> 1, word_count |-> 2, indicators |-> 0]}

\* counts a text of that length can have: words of at least one character
\* with a blank between them, no more sentences than words, an indicator
\* phrase of five characters or more for each pattern that matches
Countable(answer, structure) ==
    LET length == answer.chars - answer.blanks
    IN  /\ 2 * structure.word_count - 1 <= length
        /\ structure.sentences <= structure.word_count
        /\ 6 * structure.indicators - 1 <= length
        /\ structure.indicators <= structure.word_count

\* ROUGE-1 and ROUGE-L (rounded to 3 decimals by calculate_rouge_scores), BLEU
\* (both zero without a common word, both positive with one) and whether more
\* than half of the words are distinct, or an exception
NlpOutcomes ==
    {[raised |-> TRUE, rouge1 |-> 0, rougeL |-> 0, bleu |-> 0, diverse |-> FALSE]}
    \cup {[raised |-> FALSE, rouge1 |-> 0, rougeL |-> 0, bleu |-> 0, diverse |-> d] :
             d \in BOOLEAN}
    \cup {[raised |-> FALSE, rouge1 |-> r[1], rougeL |-> r[2], bleu |-> b, diverse |-> d] :
             r \in {<<500000, 450000>>, <<1000000, 900000>>},
             b \in {500000, 1000000},
             d \in BOOLEAN}

EvalTexts ==
    {text \in [answer : AnswerTexts, similarity : SimilarityOutcomes, keywords : KeywordCounts,
               structure : StructureCounts, nlp : NlpOutcomes, ai : BOOLEAN] :
        Countable(text.answer, text.structure)}

NoText == [answer |-> [chars |-> 0, blanks |-> 0]]
NotEvaluated == [evaluation |-> NoEvaluation, called |-> {}, raised |-> "none"]

\* the call: evaluate_answer on the text at hand
evaluate_answer_call ==
    /\ eval_result = NotEvaluated
    /\ eval_args \in EvalTexts
    /\ eval_result' = evaluate_answer_in_full(eval_args)
    /\ UNCHANGED <<db_sessions, db_questions, db_answers, current_sessions, ret, nok, held,
                   pc, loc, calls, eval_args>>

\* the question types of a start call with num_questions = n
TypeLists(n) == [1..n -> RequestedTypes]

\* the same with the three types main.py offers
TypeLists3(n) == [1..n -> {"technical", "behavioral", "situational"}]

Init ==
    /\ db_sessions = <<>>
    /\ db_questions = <<>>
    /\ db_answers = [q \in {} |-> 0]
    /\ current_sessions = [s \in {} |-> 0]
    /\ ret = Ret("init", 0, "none", "")
    /\ nok = [s \in SessionIds |-> 0]
    /\ held = [s \in SessionIds |-> FALSE]
    /\ pc = [t \in Threads |-> "idle"]
    /\ loc = [t \in Threads |-> NoLocals]
    /\ calls = 0
    /\ eval_args = NoText
    /\ eval_result = NotEvaluated

Next ==
    \/ \E u \in UserIds, n \in 1..MaxQuestions : \E types \in TypeLists(n) :
          start_interview_session(u, types)
    \/ \E u \in UserIds : start_interview_session(u, <<>>)   \* num_questions = 0
    \/ \E s \in SessionIds, a \in Answers : process_answer(s, a)
    \/ \E s \in SessionIds : get_session_status(s)
    \/ \E s \in SessionIds : pause_session(s)
    \/ \E s \in SessionIds : resume_session(s)
    \/ \E s \in SessionIds : end_session_early(s)
    \/ restart

Spec == Init /\ [][Next]_vars

\* the same calls, with answers submitted again and again to every session:
\* the user of a session keeps answering
SpecLive ==
    Spec /\ \A s \in SessionIds : WF_vars(\E a \in Answers : process_answer(s, a))

\* two callers inside process_answer at once
NextConc ==
    \/ \E n \in 1..MaxQuestions : \E types \in TypeLists(n) :
          start_interview_session(1, types)
    \/ \E t \in Threads, s \in SessionIds, a \in Answers : pa_begin(t, s, a)
    \/ \E t \in Threads : pa_evaluate(t)
    \/ \E t \in Threads : pa_save(t)
    \/ \E t \in Threads : pa_append(t)
    \/ \E t \in Threads : pa_read_index(t)
    \/ \E t \in Threads : pa_write_index(t)
    \/ \E t \in Threads : pa_return(t)

SpecConc == Init /\ [][NextConc]_vars

\* the evaluator alone: any text, evaluated once
InitEval ==
    /\ db_sessions = <<>>
    /\ db_questions = <<>>
    /\ db_answers = [q \in {} |-> 0]
    /\ current_sessions = [s \in {} |-> 0]
    /\ ret = Ret("init", 0, "none", "")
    /\ nok = [s \in SessionIds |-> 0]
    /\ held = [s \in SessionIds |-> FALSE]
    /\ pc = [t \in Threads |-> "idle"]
    /\ loc = [t \in Threads |-> NoLocals]
    /\ calls = 0
    /\ eval_args \in EvalTexts
    /\ eval_result = NotEvaluated

NextEval == evaluate_answer_call

SpecEval == InitEval /\ [][NextEval]_vars

\* ----------------------------------- _evaluate_keyword_coverage on its own
\* expected keywords of a question: at most MaxKeywords, repeats allowed
MaxKeywords == 2
Keywords == {"Java", "SQL", "c++"}
KeywordLists == UNION {[1..n -> Keywords] : n \in 0..MaxKeywords}

\* answers as the sets of their words
AnswerWords == SUBSET {"java", "javascript", "sql", "C++"}

\* before: the score of the call before this one
NotScored == [keyword_score |-> -1, before |-> -1]

\* the sub-step on the question and the answer at hand
keyword_coverage_call ==
    /\ eval_result = NotScored
    /\ eval_result' =
           [keyword_score |->
                evaluate_keyword_coverage(
                    keyword_counts(eval_args.expected_keywords, eval_args.user_answer)),
            before |-> -1]
    /\ UNCHANGED <<db_sessions, db_questions, db_answers, current_sessions, ret, nok, held,
                   pc, loc, calls, eval_args>>

\* the sub-step again, on the answer with one more occurrence of an expected
\* keyword in it
keyword_coverage_call_again ==
    /\ eval_result # NotScored
    /\ \E i \in 1..Len(eval_args.expected_keywords) :
          LET user_answer == eval_args.user_answer \cup {eval_args.expected_keywords[i]}
          IN  /\ user_answer # eval_args.user_answer
              /\ eval_args' = [eval_args EXCEPT !.user_answer = user_answer]
              /\ eval_result' =
                     [keyword_score |->
                          evaluate_keyword_coverage(
                              keyword_counts(eval_args.expected_keywords, user_answer)),
                      before |-> eval_result.keyword_score]
    /\ UNCHANGED <<db_sessions, db_questions, db_answers, current_sessions, ret, nok, held,
                   pc, loc, calls>>

InitKeywords ==
    /\ db_sessions = <<>>
    /\ db_questions = <<>>
    /\ db_answers = [q \in {} |-> 0]
    /\ current_sessions = [s \in {} |-> 0]
    /\ ret = Ret("init", 0, "none", "")
    /\ nok = [s \in SessionIds |-> 0]
    /\ held = [s \in SessionIds |-> FALSE]
    /\ pc = [t \in Threads |-> "idle"]
    /\ loc = [t \in Threads |-> NoLocals]
    /\ calls = 0
    /\ eval_args \in [expected_keywords : KeywordLists, user_answer : AnswerWords]
    /\ eval_result = NotScored

NextKeywords ==
    \/ keyword_coverage_call
    \/ keyword_coverage_call_again

SpecKeywords == InitKeywords /\ [][NextKeywords]_vars

\* ------------------------------------------- the session summary on its own
\* questions of a session that gets completed
MaxAnswered == 3

\* evaluations evaluate_answer returns: the short answer's, and those of
\* semantic, keyword, structure and composite NLP scores (0.5, 0.5, 0.5, 0),
\* (0.7, 0.7, 0.7, 0.5), (0.7, 0.5, 0.7, 0), (0.6, 0.6, 0.6, 0), (0.5, 0.7, 0.5, 0.5)
SessionEvaluations ==
    {create_evaluation_result(
         100000, 100000, 100000, 100000,
         "Answer is too short. Please provide a more detailed response.", NoMetrics)}
    \cup {create_evaluation_result(
              s[1], s[2], s[3], weighted_overall(s[1], s[2], s[3], s[4]),
              generate_ai_feedback(TRUE),
              [composite_nlp_score |-> s[4],
               performance_category |-> categorize_nlp_performance(1000 * s[4])]) :
          s \in {<<500000, 500000, 500000, 0>>, <<700000, 700000, 700000, 500>>,
                 <<700000, 500000, 700000, 0>>, <<600000, 600000, 600000, 0>>,
                 <<500000, 700000, 500000, 500>>}}

\* sessions as _complete_session finds them: the index has reached the number
\* of questions, and the evaluations are those appended since the session
\* state was built, by start_interview_session (one for each question) or by
\* _restore_session_from_db (one for each question not answered before)
CompletingSessions ==
    UNION {[questions : {generate_questions(types)}, evaluations : [1..n -> SessionEvaluations]] :
              types \in UNION {TypeLists3(total) : total \in 1..MaxAnswered}, n \in 1..MaxAnswered}

NotSummarized == [metrics |-> calculate_session_metrics_in_full(<<>>), recommendations |-> <<>>]

\* _complete_session: the metrics and the recommendations of its summary
complete_session_call ==
    /\ eval_result = NotSummarized
    /\ LET session_metrics == calculate_session_metrics_in_full(eval_args.evaluations)
       IN  eval_result' =
               [metrics |-> session_metrics,
                recommendations |-> generate_recommendations(eval_args, session_metrics)]
    /\ UNCHANGED <<db_sessions, db_questions, db_answers, current_sessions, ret, nok, held,
                   pc, loc, calls, eval_args>>

InitSummary ==
    /\ db_sessions = <<>>
    /\ db_questions = <<>>
    /\ db_answers = [q \in {} |-> 0]
    /\ current_sessions = [s \in {} |-> 0]
    /\ ret = Ret("init", 0, "none", "")
    /\ nok = [s \in SessionIds |-> 0]
    /\ held = [s \in SessionIds |-> FALSE]
    /\ pc = [t \in Threads |-> "idle"]
    /\ loc = [t \in Threads |-> NoLocals]
    /\ calls = 0
    /\ eval_args \in {session \in CompletingSessions :
                         Len(session.evaluations) <= Len(session.questions)}
    /\ eval_result = NotSummarized

NextSummary == complete_session_call

SpecSummary == InitSummary /\ [][NextSummary]_vars

\* ------------------------------------------------------------------ claims
Terminal == {"completed", "ended_early", "cancelled"}

\* the ids of the question rows of a session, in creation order
QuestionRows(s) ==
    SelectSeq([i \in 1..Len(db_questions) |-> i], LAMBDA i : db_questions[i].session_id = s)

\* the session and user rows of s exist and it has question rows
Durable(s) ==
    /\ s \in 1..Len(db_sessions)
    /\ db_sessions[s].user_id \in Users
    /\ QuestionRows(s) # <<>>

\* the answers table holds one row for each of the first k questions of s
\* and none for the others
FirstAnswered(s, k) ==
    \A i \in 1..Len(QuestionRows(s)) :
        AnswerRows(db_answers, QuestionRows(s)[i]) = (IF i <= k THEN 1 ELSE 0)

\* what a process_answer call that succeeded returns as its status
Succeeded == {"question_answered", "session_completed"}

\* the step is a call of op for session s
Called(op, s) == ret'.op = op /\ ret'.sid = s

\* C1: in every reachable state, every session in transient storage has as
\* many in-memory answers as its cursor says, and a cursor no larger than its
\* number of questions.
C1_AnswersMatchCursor ==
    \A s \in DOMAIN current_sessions :
        /\ Len(current_sessions[s].answers) = current_sessions[s].current_question_index
        /\ current_sessions[s].current_question_index <= Len(current_sessions[s].questions)

\* C2: a status call for a session that is not in transient storage and whose
\* durable rows hold answers for exactly the first K of its Q >= 1 questions
\* returns the session with cursor K, status active when K < Q and completed
\* when K = Q, and holds that session in transient storage afterwards.
C2_Reconciliation ==
    [][\A s \in SessionIds : \A k \in 0..MaxQuestions :
          (/\ Called("status", s)
           /\ s \notin DOMAIN current_sessions
           /\ Durable(s)
           /\ k <= Len(QuestionRows(s))
           /\ FirstAnswered(s, k))
          => /\ ret'.status = "found"
             /\ ret'.current = k
             /\ ret'.total = Len(QuestionRows(s))
             /\ ret'.session_status = (IF k < Len(QuestionRows(s)) THEN "active" ELSE "completed")
             /\ s \in DOMAIN current_sessions'
             /\ current_sessions'[s].current_question_index = k
             /\ current_sessions'[s].status = ret'.session_status]_vars

\* a session with both of its two questions answered, given back as completed
\* by a status call after the transient state was lost
C2_Witness ==
    /\ ret.op = "status" /\ ret.status = "found"
    /\ ~held[ret.sid]
    /\ ret.current = 2 /\ ret.total = 2 /\ ret.session_status = "completed"
    /\ FirstAnswered(ret.sid, 2)
    /\ current_sessions[ret.sid].evaluations = <<>>

\* C3: once the status of a session in transient storage is completed,
\* ended_early or cancelled, no call changes it.
C3_TerminalStatuses ==
    [][\A s \in (DOMAIN current_sessions) \cap (DOMAIN current_sessions') :
          current_sessions[s].status \in Terminal
          => current_sessions'[s].status = current_sessions[s].status]_vars

\* C4: whenever no process_answer call is running, what the calls so far left
\* is what some sequential order of them leaves: each question of a session
\* in transient storage below its cursor has exactly one answer row, each
\* other question none, and the session holds one answer per cursor step.
C4_Serializable ==
    (\A t \in Threads : pc[t] = "idle")
    => \A s \in DOMAIN current_sessions :
          LET session == current_sessions[s]
          IN  /\ \A i \in 1..Len(session.questions) :
                    AnswerRows(db_answers, session.questions[i].db_id)
                        = (IF i <= session.current_question_index THEN 1 ELSE 0)
              /\ Len(session.answers) = session.current_question_index

\* C5: a process_answer call that succeeds appends one answer (for the
\* question at the cursor) and one evaluation, adds one answer row for that
\* question and no other row, and moves the cursor by one; so the cursor of a
\* session is the number of successful calls, and so are the lengths of
\* answers and evaluations of a session held since its start.
C5_Step ==
    \A s \in SessionIds :
        (Called("process_answer", s) /\ ret'.status \in Succeeded)
        => /\ s \in DOMAIN current_sessions
           /\ LET old == current_sessions[s]
                  new == current_sessions'[s]
                  q == old.questions[old.current_question_index + 1]
              IN  /\ new.current_question_index = old.current_question_index + 1
                  /\ Len(new.answers) = Len(old.answers) + 1
                  /\ SubSeq(new.answers, 1, Len(old.answers)) = old.answers
                  /\ new.answers[Len(new.answers)].question_id = q.id
                  /\ Len(new.evaluations) = Len(old.evaluations) + 1
                  /\ SubSeq(new.evaluations, 1, Len(old.evaluations)) = old.evaluations
                  /\ new.questions = old.questions
                  /\ AnswerRows(db_answers', q.db_id) = AnswerRows(db_answers, q.db_id) + 1
                  /\ \A x \in (DOMAIN db_answers') \ {q.db_id} :
                        AnswerRows(db_answers', x) = AnswerRows(db_answers, x)
                  /\ nok'[s] = nok[s] + 1

C5_Count ==
    \A s \in DOMAIN current_sessions :
        /\ current_sessions[s].current_question_index = nok[s]
        /\ held[s] => /\ Len(current_sessions[s].answers) = nok[s]
                      /\ Len(current_sessions[s].evaluations) = nok[s]

C5_ProcessAnswerAdvances == [][C5_Step]_vars /\ []C5_Count

\* two successful calls on a session held since its start
C5_Witness ==
    \E s \in DOMAIN current_sessions :
        /\ held[s] /\ nok[s] = 2
        /\ ret.op = "process_answer" /\ ret.sid = s /\ ret.status = "session_completed"
        /\ Len(current_sessions[s].answers) = 2

\* C6: the successful process_answer call that brings the cursor to the
\* number of questions sets the status to completed and returns the session
\* summary; one that leaves it below keeps the status and returns the question
\* at the new cursor with progress current = new cursor, total = number of
\* questions.
C6_CompletionOrNext ==
    [][\A s \in SessionIds :
          (Called("process_answer", s) /\ ret'.status \in Succeeded)
          => LET new == current_sessions'[s]
                 total == Len(new.questions)
             IN  IF new.current_question_index = total
                 THEN /\ new.status = "completed"
                      /\ ret'.status = "session_completed"
                      /\ ret'.total = total
                      /\ ret'.average =
                            calculate_session_metrics(new.evaluations).session_average
                 ELSE /\ new.current_question_index < total
                      /\ new.status = current_sessions[s].status
                      /\ ret'.status = "question_answered"
                      /\ ret'.question = new.questions[new.current_question_index + 1]
                      /\ ret'.current = new.current_question_index
                      /\ ret'.total = total]_vars

\* the second answer of a two-question session completed it
C6_Witness ==
    /\ ret.op = "process_answer" /\ ret.status = "session_completed" /\ ret.total = 2
    /\ ret.sid \in DOMAIN current_sessions
    /\ current_sessions[ret.sid].status = "completed"
    /\ current_sessions[ret.sid].current_question_index = 2

\* C7: pause on a session whose status is active sets it to paused; on a
\* session with any other status it returns an error and leaves the status.
C7_PauseOnlyFromActive ==
    [][\A s \in DOMAIN current_sessions :
          Called("pause", s)
          => IF current_sessions[s].status = "active"
             THEN current_sessions'[s].status = "paused" /\ ret'.status = "success"
             ELSE /\ ret'.status = "error"
                  /\ current_sessions'[s].status = current_sessions[s].status]_vars

\* C8: resume on a paused session sets the status to active and returns the
\* question at the cursor with progress current = cursor, total = number of
\* questions; a resume that returns an error leaves status and cursor as
\* they were.
C8_ResumeOnlyFromPaused ==
    [][\A s \in DOMAIN current_sessions :
          Called("resume", s)
          => LET old == current_sessions[s]
                 new == current_sessions'[s]
             IN  /\ old.status = "paused"
                    => /\ new.status = "active"
                       /\ ret'.status = "success"
                       /\ ret'.current = old.current_question_index
                       /\ ret'.total = Len(old.questions)
                       /\ old.current_question_index < Len(old.questions)
                       /\ ret'.question = old.questions[old.current_question_index + 1]
                 /\ old.status # "paused" => ret'.status = "error"
                 /\ ret'.status = "error"
                    => /\ new.status = old.status
                       /\ new.current_question_index = old.current_question_index]_vars

\* the number of answers recorded for session s: the answer rows of its questions
Recorded(s) == SumSeq([i \in 1..Len(QuestionRows(s)) |-> AnswerRows(db_answers, QuestionRows(s)[i])])

\* C9: end_session_early on a session with no recorded answer sets the status
\* to cancelled and returns no summary; with at least one recorded answer it
\* sets ended_early and returns a partial summary whose questions_answered is
\* the number of recorded answers and whose average_score is the mean of the
\* recorded overall scores.
C9_EndEarly ==
    [][\A s \in DOMAIN current_sessions :
          Called("end_early", s)
          => LET new == current_sessions'[s]
                 scores == [i \in 1..Len(new.evaluations) |-> new.evaluations[i].overall_score]
             IN  IF Recorded(s) = 0
                 THEN /\ new.status = "cancelled"
                      /\ ret'.status = "session_cancelled"
                      /\ ret'.answered = -1 /\ ret'.average = -1
                 ELSE /\ new.status = "ended_early"
                      /\ ret'.status = "session_ended_early"
                      /\ ret'.answered = Recorded(s)
                      /\ Len(scores) = Recorded(s)
                      /\ ret'.average * Len(scores) = SumSeq(scores)]_vars

\* C10: process_answer for a session that is not in transient storage but
\* whose durable session and question rows exist, with fewer answers than
\* questions, rebuilds the session and records the answer; it does not
\* report an error.
C10_ProcessAnswerReconciles ==
    [][\A s \in SessionIds :
          (/\ Called("process_answer", s)
           /\ s \notin DOMAIN current_sessions
           /\ Durable(s)
           /\ Recorded(s) < Len(QuestionRows(s)))
          => /\ ret'.status \in Succeeded
             /\ Recorded(s)' = Recorded(s) + 1]_vars

\* C11: process_answer on a session whose cursor already equals its number
\* of questions returns an error result, runs no evaluation (the result
\* carries no score), adds no answer row, and leaves the session (cursor,
\* answers, evaluations, status) as it was.
C11_NoMoreQuestions ==
    [][\A s \in DOMAIN current_sessions :
          (/\ Called("process_answer", s)
           /\ current_sessions[s].current_question_index = Len(current_sessions[s].questions))
          => /\ ret'.status = "error"
             /\ ret'.overall = -1
             /\ db_answers' = db_answers
             /\ current_sessions' = current_sessions
             /\ nok' = nok]_vars

\* a further answer to a session completed by its second answer is refused
C11_Witness ==
    /\ ret.op = "process_answer" /\ ret.status = "error"
    /\ ret.message = "No more questions in session"
    /\ ret.sid \in DOMAIN current_sessions
    /\ current_sessions[ret.sid].current_question_index = 2
    /\ Len(current_sessions[ret.sid].questions) = 2
    /\ Recorded(ret.sid) = 2

\* C12: a process_answer call that reaches the write of the answer (session
\* in transient storage, cursor below the number of questions) and whose write
\* adds no row ends in a raised failure, not in a result, and leaves the
\* session and the count of successful calls as they were; a call that returns
\* a success result wrote its row.  So the cursor moves by exactly the number
\* of rows the call added.
C12_SaveFailurePropagates ==
    [][\A s \in DOMAIN current_sessions :
          (/\ Called("process_answer", s)
           /\ current_sessions[s].current_question_index < Len(current_sessions[s].questions))
          => /\ (db_answers' = db_answers)
                => /\ ret'.status = "raised"
                   /\ current_sessions' = current_sessions
                   /\ nok' = nok
             /\ ret'.status \in Succeeded => Recorded(s)' = Recorded(s) + 1
             /\ current_sessions'[s].current_question_index
                    - current_sessions[s].current_question_index
                = Recorded(s)' - Recorded(s)]_vars

\* the write of the second answer failed: one row, cursor 1, one answer
C12_Witness ==
    /\ ret.op = "process_answer" /\ ret.status = "raised" /\ ret.message = "sqlite3.Error"
    /\ ret.sid \in DOMAIN current_sessions
    /\ held[ret.sid]
    /\ current_sessions[ret.sid].current_question_index = 1
    /\ Len(current_sessions[ret.sid].answers) = 1
    /\ Recorded(ret.sid) = 1

\* C13: a start call that reports "User not found" returns an error result
\* and adds no session row, no question row and no transient session.
C13_UnknownUserCreatesNothing ==
    [][(ret'.op = "start" /\ ret'.message = "User not found")
          => /\ ret'.status = "error"
             /\ db_sessions' = db_sessions
             /\ db_questions' = db_questions
             /\ current_sessions' = current_sessions]_vars

\* C14: start for an existing user with N >= 1 questions adds one session row
\* and N question rows (of the new session), registers the session with
\* cursor 0, status active, N questions and no answers or evaluations, and
\* returns success with the new session id, the first question and total N.
C14_StartCreatesSession ==
    [][\A u \in Users, n \in 1..MaxQuestions : \A types \in TypeLists(n) :
          start_interview_session(u, types)
          => LET sid == Len(db_sessions) + 1
             IN  /\ Len(db_sessions') = Len(db_sessions) + 1
                 /\ db_sessions'[sid].user_id = u
                 /\ Len(db_questions') = Len(db_questions) + n
                 /\ SubSeq(db_questions', 1, Len(db_questions)) = db_questions
                 /\ \A i \in (Len(db_questions) + 1)..Len(db_questions') :
                       db_questions'[i].session_id = sid
                 /\ sid \in DOMAIN current_sessions'
                 /\ Len(current_sessions'[sid].questions) = n
                 /\ current_sessions'[sid].current_question_index = 0
                 /\ current_sessions'[sid].status = "active"
                 /\ current_sessions'[sid].answers = <<>>
                 /\ current_sessions'[sid].evaluations = <<>>
                 /\ \A i \in 1..n :
                       /\ current_sessions'[sid].questions[i].db_id = Len(db_questions) + i
                       /\ current_sessions'[sid].questions[i].type = types[i]
                 /\ ret'.status = "success"
                 /\ ret'.sid = sid
                 /\ ret'.question = current_sessions'[sid].questions[1]
                 /\ ret'.total = n]_vars

\* a second session started with two questions, after a first one
C14_Witness ==
    /\ ret.op = "start" /\ ret.status = "success" /\ ret.sid = 2 /\ ret.total = 2
    /\ Len(db_sessions) = 2
    /\ Len(QuestionRows(2)) = 2
    /\ current_sessions[2].current_question_index = 0
    /\ ret.question.db_id = QuestionRows(2)[1]

\* C15: a start call with num_questions = 0 returns an error result, or
\* registers a session with no questions whose status is completed.
C15_ZeroQuestions ==
    [][\A u \in UserIds :
          start_interview_session(u, <<>>)
          => \/ ret'.status = "error"
             \/ /\ ret'.sid \in DOMAIN current_sessions'
                /\ current_sessions'[ret'.sid].questions = <<>>
                /\ current_sessions'[ret'.sid].status = "completed"]_vars

\* C16: a successful process_answer call that leaves the cursor below the
\* number of questions returns the elaboration follow-up when the overall
\* score is below 0.5, the encouragement when it is above 0.8, and no
\* follow-up when it is in [0.5, 0.8].
C16_FollowUp ==
    [][\A s \in SessionIds :
          (Called("process_answer", s) /\ ret'.status = "question_answered")
          => ret'.followup = (IF ret'.overall < 500 THEN "elaborate"
                              ELSE IF ret'.overall > 800 THEN "encourage"
                              ELSE "none")]_vars

\* the durable and transient state of session b
SessionState(b) ==
    [transient |-> IF b \in DOMAIN current_sessions THEN current_sessions[b] ELSE None,
     rows |-> [i \in 1..Len(QuestionRows(b)) |-> AnswerRows(db_answers, QuestionRows(b)[i])]]

\* C17: a process_answer, pause, resume, end_session_early or status call for
\* session a leaves every other session b as it was: in transient storage or
\* not, with the same cursor, status, questions, answers and evaluations, and
\* the same answer rows.
C17_Isolation ==
    [][\A a \in SessionIds :
          (/\ ret'.op \in {"process_answer", "pause", "resume", "end_early", "status"}
           /\ ret'.sid = a)
          => \A b \in SessionIds \ {a} : SessionState(b)' = SessionState(b)]_vars

\* the second answer to session 1 while session 2, paused after its first
\* answer, is in transient storage too
C17_Witness ==
    /\ ret.op = "process_answer" /\ ret.sid = 1 /\ ret.status \in Succeeded
    /\ 2 \in DOMAIN current_sessions
    /\ current_sessions[2].status = "paused"
    /\ current_sessions[2].current_question_index = 1
    /\ current_sessions[1].current_question_index = 2

\* the call was made and returned an evaluation
Evaluated == eval_result.evaluation # NoEvaluation

\* C18: for every answer whose trimmed length is below 10, evaluate_answer
\* returns semantic, keyword, structure and overall score 0.1 each, the fixed
\* short-answer feedback and no nlp_metrics key, and calls no scoring sub-step
\* and no feedback generator.
C18_ShortAnswer ==
    (Evaluated /\ eval_args.answer.chars - eval_args.answer.blanks < 10)
    => /\ eval_result.evaluation.semantic_score = 100
       /\ eval_result.evaluation.keyword_score = 100
       /\ eval_result.evaluation.structure_score = 100
       /\ eval_result.evaluation.overall_score = 100
       /\ eval_result.evaluation.feedback
              = "Answer is too short. Please provide a more detailed response."
       /\ "nlp_metrics" \notin DOMAIN eval_result.evaluation
       /\ eval_result.called = {}

\* an answer of 12 characters, 9 after the strip, was evaluated
C18_Witness ==
    /\ Evaluated
    /\ eval_args.answer = [chars |-> 12, blanks |-> 3]
    /\ eval_result.evaluation.overall_score = 100

\* the four scores of an evaluation lie in [0, 1]
ScoresInRange(evaluation) ==
    \A score \in {evaluation.semantic_score, evaluation.keyword_score,
                  evaluation.structure_score, evaluation.overall_score} :
        0 <= score /\ score <= 1000

\* overall = 0.3 semantic + 0.25 keyword + 0.25 structure + 0.2 composite NLP
\* of the returned (rounded) scores, within 0.001; in millionths
WeightedSum(evaluation) ==
    LET sum == 300 * evaluation.semantic_score + 250 * evaluation.keyword_score
               + 250 * evaluation.structure_score
               + 200 * evaluation.nlp_metrics.composite_nlp_score
        diff == 1000 * evaluation.overall_score - sum
    IN  -1000 < diff /\ diff < 1000

\* C19, as stated: every evaluation returned by evaluate_answer has its four
\* scores in [0, 1] and an overall score equal, within rounding, to the
\* weighted sum of its semantic, keyword and structure scores and its
\* composite NLP score.
C19_WeightedSumAlways ==
    Evaluated
    => /\ ScoresInRange(eval_result.evaluation)
       /\ "nlp_metrics" \in DOMAIN eval_result.evaluation
       /\ WeightedSum(eval_result.evaluation)

\* C19, amended: every evaluation has its four scores in [0, 1]; the
\* evaluation of an answer whose trimmed length is at least 10 carries the NLP
\* metrics and its overall score equals the weighted sum within rounding.
C19_WeightedSum ==
    Evaluated
    => /\ ScoresInRange(eval_result.evaluation)
       /\ eval_args.answer.chars - eval_args.answer.blanks >= 10
          => /\ "nlp_metrics" \in DOMAIN eval_result.evaluation
             /\ WeightedSum(eval_result.evaluation)

\* an answer of 10 characters after the strip, with rounded sub-scores:
\* semantic 0.625 (0.6252), keyword 0.6, structure 0.2, composite 0.41,
\* overall 0.47 (0.46956)
C19_Witness ==
    /\ Evaluated
    /\ eval_args.answer = [chars |-> 12, blanks |-> 2]
    /\ eval_result.evaluation.semantic_score = 625
    /\ eval_result.evaluation.keyword_score = 600
    /\ eval_result.evaluation.structure_score = 200
    /\ eval_result.evaluation.nlp_metrics.composite_nlp_score = 410
    /\ eval_result.evaluation.overall_score = 470

\* C20: the performance level of every evaluation is the band of the overall
\* score the evaluation reports: Excellent from 0.8, Good from 0.6, Fair from
\* 0.4, Needs Improvement below.
C20_LevelOfReportedScore ==
    Evaluated
    => eval_result.evaluation.performance_level
           = (IF eval_result.evaluation.overall_score >= 800 THEN "Excellent"
              ELSE IF eval_result.evaluation.overall_score >= 600 THEN "Good"
              ELSE IF eval_result.evaluation.overall_score >= 400 THEN "Fair"
              ELSE "Needs Improvement")

\* the call was made: it returned or it raised
CallMade == eval_result # NotEvaluated

\* C21: for an answer whose trimmed length is at least 10, evaluate_answer
\* never ends in an exception: when the semantic step fails the semantic score
\* is 0.5, when the NLP step fails the composite is 0.5 with category
\* 'Average', when the feedback service fails the feedback is the fallback's,
\* and a failing keyword or structure step still leaves an evaluation with
\* the other scores computed as usual.
C21_SubStepFailureContained ==
    (CallMade /\ eval_args.answer.chars - eval_args.answer.blanks >= 10)
    => /\ eval_result.raised = "none"
       /\ eval_result.evaluation # NoEvaluation
       /\ eval_args.similarity.raised => eval_result.evaluation.semantic_score = 500
       /\ eval_args.nlp.raised
          => eval_result.evaluation.nlp_metrics
                 = [composite_nlp_score |-> 500, performance_category |-> "Average"]
       /\ ~eval_args.ai => eval_result.evaluation.feedback = "fallback feedback"
       /\ eval_result.evaluation.keyword_score
              = Round3(evaluate_keyword_coverage(eval_args.keywords), 1000)
          \/ eval_args.keywords.raised
       /\ eval_result.evaluation.structure_score
              = Round3(evaluate_answer_structure(eval_args.structure), 1000)
          \/ eval_args.structure.raised

\* the expected keywords that occur in the answer, whatever the case
Occurring(expected_keywords, user_answer) ==
    {i \in 1..Len(expected_keywords) :
        \E word \in user_answer : within(lower(expected_keywords[i]), lower(word))}

\* C24: the keyword score is 0.7 when the question has no expected keywords
\* and otherwise matched/total, at most 1.0; putting one more occurrence of an
\* expected keyword into the answer never lowers it.
C24_KeywordScore ==
    /\ [][eval_result # NotScored /\ eval_result' # NotScored
          => eval_result'.keyword_score >= eval_result.keyword_score]_vars
    /\ [](eval_result # NotScored
          => LET total == Len(eval_args.expected_keywords)
                 matched == Cardinality(Occurring(eval_args.expected_keywords,
                                                  eval_args.user_answer))
             IN  /\ eval_result.keyword_score <= 1000000
                 /\ total = 0 => eval_result.keyword_score = 700000
                 /\ total > 0
                    => /\ eval_result.keyword_score * total <= matched * 1000000
                       /\ eval_result.keyword_score * total > matched * 1000000 - total)

\* 'Java' and 'c++' expected, the answer had 'javascript' (score 0.5) and got
\* 'c++' as well (score 1.0)
C24_Witness ==
    /\ eval_args.expected_keywords = <<"Java", "c++">>
    /\ eval_args.user_answer = {"javascript", "c++"}
    /\ eval_result = [keyword_score |-> 1000000, before |-> 500000]

\* the summary was computed
Summarized == eval_result # NotSummarized

\* the sums of the semantic, keyword and structure scores of the evaluations
\* summarized (their means times the number of evaluations)
AreaSums ==
    LET evaluations == eval_args.evaluations
    IN  <<SumSeq([i \in 1..Len(evaluations) |-> evaluations[i].semantic_score]),
          SumSeq([i \in 1..Len(evaluations) |-> evaluations[i].keyword_score]),
          SumSeq([i \in 1..Len(evaluations) |-> evaluations[i].structure_score])>>

\* area a is the strongest (sign 1) or weakest (sign -1) by mean, and the first such
FirstBest(a, sign) ==
    /\ \A b \in 1..3 : sign * AreaSums[b] <= sign * AreaSums[a]
    /\ \A b \in 1..(a - 1) : AreaSums[b] # AreaSums[a]

\* strongest and weakest area of the summary are the first areas with the
\* highest and the lowest mean; both are the first area when the means agree
StrongestAndWeakest ==
    /\ \E a \in 1..3 : FirstBest(a, 1) /\ eval_result.metrics.strongest_area = AreaNames[a]
    /\ \E a \in 1..3 : FirstBest(a, -1) /\ eval_result.metrics.weakest_area = AreaNames[a]
    /\ (AreaSums[1] = AreaSums[2] /\ AreaSums[2] = AreaSums[3])
       => /\ eval_result.metrics.strongest_area = "Content Relevance"
          /\ eval_result.metrics.weakest_area = "Content Relevance"

OverallSum ==
    SumSeq([i \in 1..Len(eval_args.evaluations) |-> eval_args.evaluations[i].overall_score])

Before == Len(eval_args.questions) - Len(eval_args.evaluations)

\* the question types with an evaluated answer, in the order of their first one
AnsweredTypes ==
    LET n == Len(eval_args.evaluations)
        type_of(j) == eval_args.questions[Before + j].type
        firsts == SelectSeq([j \in 1..n |-> j],
                            LAMBDA j : \A k \in 1..(j - 1) : type_of(k) # type_of(j))
    IN  [k \in 1..Len(firsts) |-> type_of(firsts[k])]

\* the average overall score of the answers to questions of this type is below 0.5
TypeBelowHalf(q_type) ==
    LET of_type == {j \in 1..Len(eval_args.evaluations) :
                       eval_args.questions[Before + j].type = q_type}
        scores == [j \in 1..Len(eval_args.evaluations) |->
                      IF j \in of_type THEN eval_args.evaluations[j].overall_score ELSE 0]
    IN  SumSeq(scores) < 500 * Cardinality(of_type)

\* the list the recommendations are cut from
Recommended ==
    LET n == Len(eval_args.evaluations)
        by_area ==
            (IF AreaSums[1] < 600 * n
             THEN <<"Practice answering questions more directly and relevantly to what's being asked.">>
             ELSE <<>>)
            \o (IF AreaSums[2] < 600 * n
                THEN <<"Study technical terminology and concepts specific to your domain.">>
                ELSE <<>>)
            \o (IF AreaSums[3] < 600 * n
                THEN <<"Work on structuring your answers using frameworks like STAR (Situation, Task, Action, Result).">>
                ELSE <<>>)
        low_types == SelectSeq(AnsweredTypes, TypeBelowHalf)
        by_type == Flatten([k \in 1..Len(low_types) |-> type_recommendation(low_types[k])])
    IN  (IF by_area \o by_type = <<>>
         THEN <<"Continue practicing regularly to maintain and improve your interview skills.">>
         ELSE by_area \o by_type)
        \o <<"Review the detailed feedback for each question to understand specific areas for improvement.">>

\* C23: the recommendations of a summary are the first five at most of: one
\* sentence for each of the semantic, keyword and structure averages below
\* 0.6, then one sentence for each question type whose answers average an
\* overall score below 0.5, then the generic encouragement if and only if none
\* of these was due, then the closing sentence; so there are 2 to 5 of them.
C23_Recommendations ==
    Summarized
    => /\ eval_result.recommendations = SubSeq(Recommended, 1, Min(5, Len(Recommended)))
       /\ 2 <= Len(eval_result.recommendations)
       /\ Len(eval_result.recommendations) <= 5

\* C25: in every session, evaluations[i] is the evaluation of the answer given
\* to questions[i] (the answer appended with it names that question), for
\* every index i of evaluations.
C25_EvaluationsAligned ==
    \A s \in DOMAIN current_sessions :
        LET session == current_sessions[s]
        IN  /\ Len(session.answers) = Len(session.evaluations)
            /\ \A i \in 1..Len(session.evaluations) :
                  /\ i <= Len(session.questions)
                  /\ session.answers[i].question_id = session.questions[i].id

\* the questions start_interview_session issued to session s: those generated
\* for the types of its rows, each with the id of its row as db_id
Issued(s) ==
    LET qids == question_rows(db_questions, s)
        generated == generate_questions([k \in 1..Len(qids) |->
                                            db_questions[qids[k]].question_type])
    IN  [k \in 1..Len(qids) |-> [generated[k] EXCEPT !.db_id = qids[k]]]

\* C26: whatever was called since, a session holds the questions issued to it
\* by start_interview_session: the same ones in the same order, with the same
\* id, type, evaluation criteria and sample answer.
C26_QuestionsFixed ==
    \A s \in DOMAIN current_sessions : current_sessions[s].questions = Issued(s)

\* C27: with calls made one at a time, the answers table holds exactly one
\* row for each of the first current_question_index questions of a session in
\* current_sessions and no row for its other questions (whether or not a
\* write has failed before: a failed write leaves both as they were).
C27_RowsMatchCursor ==
    \A s \in DOMAIN current_sessions :
        LET session == current_sessions[s]
        IN  \A i \in 1..Len(session.questions) :
                AnswerRows(db_answers, session.questions[i].db_id)
                    = (IF i <= session.current_question_index THEN 1 ELSE 0)

\* a session restored after its first answer and then answered once more:
\* rows for both of its questions, index 2
C27_Witness ==
    /\ 1 \in DOMAIN current_sessions
    /\ ~held[1]
    /\ ret.op = "process_answer" /\ ret.sid = 1 /\ ret.status = "session_completed"
    /\ Len(current_sessions[1].questions) = 2
    /\ current_sessions[1].current_question_index = 2
    /\ Len(current_sessions[1].evaluations) = 1
    /\ FirstAnswered(1, 2)

\* C28: a process_answer call on a session whose status is paused, completed,
\* ended_early or cancelled adds no answer row and leaves the session's
\* cursor, answers and evaluations as they were.
C28_OnlyWhenActive ==
    [][\A s \in DOMAIN current_sessions :
          (/\ Called("process_answer", s)
           /\ current_sessions[s].status \in {"paused"} \cup Terminal)
          => /\ db_answers' = db_answers
             /\ current_sessions'[s].current_question_index
                    = current_sessions[s].current_question_index
             /\ current_sessions'[s].answers = current_sessions[s].answers
             /\ current_sessions'[s].evaluations = current_sessions[s].evaluations]_vars

\* the cursor of session s: its current_question_index while it is in
\* current_sessions; once that is lost, what the table keeps of it, the
\* number of answer rows of its questions
Cursor(s) ==
    IF s \in DOMAIN current_sessions
    THEN current_sessions[s].current_question_index
    ELSE Recorded(s)

\* C29: no call and no loss of current_sessions followed by a restore lowers
\* the cursor of a session or raises it by more than one, and pause, resume,
\* end early and status calls leave the cursor of a session in
\* current_sessions as it is.
C29_CursorMonotonic ==
    [][\A s \in SessionIds :
          /\ Cursor(s)' \in {Cursor(s), Cursor(s) + 1}
          /\ (/\ s \in DOMAIN current_sessions
              /\ \E op \in {"pause", "resume", "end_early", "status"} : Called(op, s))
             => /\ s \in DOMAIN current_sessions'
                /\ current_sessions'[s].current_question_index
                       = current_sessions[s].current_question_index]_vars

\* a session of two questions, lost after its first answer, restored, paused
\* and resumed: index 1 all along
C29_Witness ==
    /\ ret.op = "resume" /\ ret.sid = 1 /\ ret.status = "success"
    /\ 1 \in DOMAIN current_sessions
    /\ ~held[1]
    /\ Len(current_sessions[1].questions) = 2
    /\ current_sessions[1].current_question_index = 1
    /\ nok[1] = 1

\* no INSERT of an answer has just failed
NoPersistenceFailure == ret.message # "sqlite3.Error"

\* session s has the given status in current_sessions
HasStatus(s, statuses) ==
    s \in DOMAIN current_sessions /\ current_sessions[s].status \in statuses

\* the process_answer call that completes a session is its Q-th successful
\* one, the Q-th successful one completes it, and the summary it returns is
\* over at least one evaluation
C30_AtTheLastAnswer ==
    [][\A s \in SessionIds :
          (Called("process_answer", s) /\ ret'.status \in Succeeded)
          => /\ ret'.status = "session_completed" <=> nok'[s] = Len(QuestionRows(s))
             /\ ret'.status = "session_completed"
                => /\ HasStatus(s, {"completed"})'
                   /\ ret'.answered >= 1]_vars

\* C30: when answers keep being submitted to every session and no write of
\* an answer fails, every started session with at least one question gets
\* the status completed unless it is ended early, and it gets it by its Q-th
\* successful process_answer call, whose summary is over at least one
\* evaluation.
C30_EventuallyCompleted ==
    /\ C30_AtTheLastAnswer
    /\ \A s \in SessionIds :
          ([]NoPersistenceFailure /\ <>Durable(s))
          => <>(HasStatus(s, {"completed"}) \/ HasStatus(s, {"ended_early", "cancelled"}))

====
